---------------------------- MODULE Spec2Model ----------------------------
(***************************************************************************)
(* Model of main_cpx.py: the NeoPixel pulse program of the Circuit         *)
(* Playground Express.  One main-loop iteration ("tick") is one action.    *)
(*                                                                         *)
(* Python floats are modelled as IEEE-754 binary64 values (the reference   *)
(* Python build): every float operation is the exact operation followed by *)
(* round-to-nearest-even to 53 significant bits.  A non-negative float is  *)
(* held as a fixed-point number with 60 fraction bits in four limbs of 20  *)
(* bits, least significant first: <<l1,l2,l3,l4>> is                       *)
(*     (l1 + l2*2^20 + l3*2^40 + l4*2^60) / 2^60,                          *)
(* so the fourth limb is the integer part.  Every float the program        *)
(* computes is either 0 or lies in [2^-8, 2^11), where binary64 values are *)
(* multiples of 2^-60, so the representation is exact.                     *)
(***************************************************************************)
EXTENDS Integers, Sequences, FiniteSets, TLC

(***************************************************************************)
(* Binary64 arithmetic                                                     *)
(***************************************************************************)
Base == 2^20

\* Carry (or borrow) propagation over four limb-sized columns, from the
\* least significant up.
Carry3(l1, l2, c3, c4) == <<l1, l2, c3 % Base, c4 + (c3 \div Base)>>

Carry2(l1, c2, c3, c4) == Carry3(l1, c2 % Base, c3 + (c2 \div Base), c4)

BigNorm(c1, c2, c3, c4) == Carry2(c1 % Base, c2 + (c1 \div Base), c3, c4)

\* float(n) for a small non-negative int n.
DblOfInt(n) == <<0, 0, 0, n>>

\* int(a): truncation of a non-negative float.
DblTrunc(a) == a[4]

DblLess(a, b) ==
    \/ a[4] < b[4]
    \/ a[4] = b[4] /\ a[3] < b[3]
    \/ a[4] = b[4] /\ a[3] = b[3] /\ a[2] < b[2]
    \/ a[4] = b[4] /\ a[3] = b[3] /\ a[2] = b[2] /\ a[1] < b[1]

\* Number of significant bits of a limb (a limb that BigNorm leaves in the top
\* place may exceed Base).
Pow2 == [k \in 0..30 |-> 2^k]

LimbBits(n) == IF n = 0 THEN 0 ELSE CHOOSE k \in 1..30 : Pow2[k-1] <= n /\ n < Pow2[k]

\* Number of significant bits of the whole fixed-point number.
BitLen(a) ==
    IF a[4] # 0 THEN 60 + LimbBits(a[4])
    ELSE IF a[3] # 0 THEN 40 + LimbBits(a[3])
    ELSE IF a[2] # 0 THEN 20 + LimbBits(a[2])
    ELSE LimbBits(a[1])

\* Whether a result whose discarded bits are low, out of a quantum q, rounds
\* up: ties go to the even neighbour unless more non-zero bits follow.
RoundsUp(low, q, odd, sticky) ==
    \/ 2 * low > q
    \/ 2 * low = q /\ (sticky \/ odd)

\* a rounded to a multiple of the quantum q (a power of two below Base).
RoundAt(a, q, sticky) ==
    BigNorm(a[1] - (a[1] % q)
              + (IF RoundsUp(a[1] % q, q, (a[1] \div q) % 2 = 1, sticky) THEN q ELSE 0),
            a[2], a[3], a[4])

\* An exact result a of len significant bits rounded to 53 significant bits,
\* ties to even.  sticky says that the exact result has further non-zero bits
\* below the last limb.
RoundLen(a, len, sticky) == IF len <= 53 THEN a ELSE RoundAt(a, Pow2[len - 53], sticky)

Round53(a, sticky) == RoundLen(a, BitLen(a), sticky)

\* a + b and a - b (a >= b) of two floats.
DblAdd(a, b) == Round53(BigNorm(a[1] + b[1], a[2] + b[2], a[3] + b[3], a[4] + b[4]), FALSE)

DblSub(a, b) == Round53(BigNorm(a[1] - b[1], a[2] - b[2], a[3] - b[3], a[4] - b[4]), FALSE)

\* n * a for a small non-negative int n (converted to float exactly) and a float a.
DblMulInt(n, a) == Round53(BigNorm(n * a[1], n * a[2], n * a[3], n * a[4]), FALSE)

\* a / 2: exact, a power of two.  Each limb takes the bit that drops out of
\* the limb above.
Half2(c2, a1, h3, h4) == <<((c2 % 2) * Base + a1) \div 2, c2 \div 2, h3, h4>>

Half3(c3, a2, a1, h4) == Half2((c3 % 2) * Base + a2, a1, c3 \div 2, h4)

DblHalf(a) == Half3((a[4] % 2) * Base + a[3], a[2], a[1], a[4] \div 2)

\* The quotient q of a long division with remainder r by d, rounded to 53
\* significant bits.
RoundQuotient(q, r, d) ==
    IF BitLen(q) = 53
    THEN IF 2 * r > d \/ (2 * r = d /\ q[1] % 2 = 1)
         THEN BigNorm(q[1] + 1, q[2], q[3], q[4]) ELSE q
    ELSE Round53(q, r # 0)

\* n / d for small ints n >= 0, d > 0 (Python's true division, correctly
\* rounded): long division of n * 2^60 by d, limb by limb from the top, each
\* step taking the remainder of the one above, then the rounding.
Div1(c1, d, q2, q3, q4) == RoundQuotient(<<c1 \div d, q2, q3, q4>>, c1 % d, d)

Div2(c2, d, q3, q4) == Div1((c2 % d) * Base, d, c2 \div d, q3, q4)

Div3(c3, d, q4) == Div2((c3 % d) * Base, d, c3 \div d, q4)

DblDivInt(n, d) == Div3((n % d) * Base, d, n \div d)

(***************************************************************************)
(* Constants of the program                                                *)
(***************************************************************************)
MAX_BRIGHTNESS == 255

MAX_CYCLE_TIME == DblOfInt(10)

MIN_CYCLE_TIME == DblDivInt(1, 2)

\* The float literal 0.1 (the double nearest to 1/10).
Tenth == DblDivInt(1, 10)

\* The lower comparison bound of the brightness branch and the value it
\* corrects to.
BRIGHTNESS_FLOOR == 10

BRIGHTNESS_RESET == 11

\* The float literals -0.1 and 0.1: a sign and a magnitude.
MinusTenth == [neg |-> TRUE, mag |-> Tenth]

PlusTenth == [neg |-> FALSE, mag |-> Tenth]

\* a + c for a non-negative float a and a signed float c of smaller magnitude.
DblAddSigned(a, c) == IF c.neg THEN DblSub(a, c.mag) ELSE DblAdd(a, c.mag)

Pads == {"color", "speed", "brightness"}

\* The orders in which a dictionary holding the three pads can be iterated.
KeyOrders == {o \in [1..3 -> Pads] : {o[i] : i \in 1..3} = Pads}

(***************************************************************************)
(* FUNCTIONS                                                               *)
(***************************************************************************)
\* scale() on int arguments with x >= x0, y1 >= y0, x1 > x0: the ints are
\* subtracted exactly, y1-y0 over x1-x0 is a true division, the product and
\* the sum are float operations.
scale(x, x0, x1, y0, y1) ==
    DblAdd(DblOfInt(y0), DblMulInt(x - x0, DblDivInt(y1 - y0, x1 - x0)))

\* int(scale(x, 0, 255, 0, y1)) for ints x, y1 >= 0, the form of every call in
\* wheel().  When 255 does not divide x*y1 the exact quotient is at least
\* 1/255 away from every integer, the two roundings of scale() move the result
\* by less than 2^-40, and the truncation is that of the exact quotient; when
\* it does, the roundings decide and the float computation is carried out.
int_scale(x, y1) ==
    IF (x * y1) % 255 # 0 THEN (x * y1) \div 255
    ELSE DblTrunc(scale(x, 0, 255, 0, y1))

\* The three bands of wheel(), for pos in 0..255.
wheel_band(pos, scaled_brightness) ==
    IF pos < 85
    THEN <<int_scale(255 - (pos * 3), scaled_brightness),
           int_scale(pos * 3, scaled_brightness),
           0>>
    ELSE IF pos < 170
    THEN <<0,
           int_scale(255 - ((pos - 85) * 3), scaled_brightness),
           int_scale((pos - 85) * 3, scaled_brightness)>>
    ELSE <<int_scale((pos - 170) * 3, scaled_brightness),
           0,
           int_scale(255 - ((pos - 170) * 3), scaled_brightness)>>

\* Mutant of wheel: the brightness is not scaled to max_brightness.
wheel_unscaled(pos, brightness, max_brightness) ==
    IF pos < 0 \/ pos > 255 THEN <<0, 0, 0>>
    ELSE wheel_band(pos, brightness)

\* wheel() for int arguments, brightness >= 0 and max_brightness >= 0.
wheel(pos, brightness, max_brightness) ==
    IF pos < 0 \/ pos > 255 THEN <<0, 0, 0>>
    ELSE wheel_band(pos, int_scale(brightness, max_brightness))

(***************************************************************************)
(* The sine of the main loop.  time.monotonic() is an input of the         *)
(* environment, so s = sin(current * (2*pi/cycle)) is drawn from a grid of *)
(* SineSteps steps on each side of 0: s = (j - SineSteps) / SineSteps for  *)
(* j in 0..2*SineSteps, held as sign and magnitude.                        *)
(***************************************************************************)
SineSteps == 2

Sine(j) ==
    IF j < SineSteps THEN [neg |-> TRUE,  mag |-> DblDivInt(SineSteps - j, SineSteps)]
                     ELSE [neg |-> FALSE, mag |-> DblDivInt(j - SineSteps, SineSteps)]

Sines == {Sine(j) : j \in 0..(2 * SineSteps)}

\* int(scale(s, -1.0, 1.0, 0, 255)): s - -1.0 is a float operation, 1.0 - -1.0
\* is 2.0, (255 - 0)/2.0 is 127.5, and the product with 127.5 is the product
\* with 255, rounded, and halved (halving is exact).
pulse(sine) ==
    DblTrunc(DblAdd(DblOfInt(0),
                    DblHalf(DblMulInt(255 - 0,
                                      IF sine.neg THEN DblSub(DblOfInt(1), sine.mag)
                                                  ELSE DblAdd(sine.mag, DblOfInt(1))))))

(***************************************************************************)
(* MAIN LOOP, as functions of a record st of the program's variables.      *)
(* st.shows is the list of frames flushed by pixels.show() in the current  *)
(* iteration, each with the place that flushed it; st.bounced records      *)
(* which branches have corrected their value at a bound so far.            *)
(***************************************************************************)
\* pixels.fill(rgb); pixels.show(), rgb being wheel() of the three values
Shown(st, by, rgb) ==
    [st EXCEPT !.pixels = rgb,
               !.call = <<st.color, st.cycle_brightness, st.cycle_max_brightness>>,
               !.shows = Append(@, [by |-> by, rgb |-> rgb])]

\* pixels.fill(wheel(color, cycle_brightness, cycle_max_brightness)); pixels.show()
FillShow(st, by) ==
    Shown(st, by, wheel(st.color, st.cycle_brightness, st.cycle_max_brightness))

\* Mutants of ColorWrap: the wrap goes to 0; the hue is clamped, not wrapped.
ColorWrapToZero(c) == IF c > 255 THEN 0 ELSE c

ColorClamp(c) == IF c > 255 THEN 255 ELSE c

\* if color > 255: color = 1
ColorWrap(c) == IF c > 255 THEN 1 ELSE c

\* pad == 'color'
ColorPad(st) == FillShow([st EXCEPT !.color = ColorWrap(st.color + 1)], "color")

\* Mutants of SpeedBounce: the lower correction subtracts the step instead of
\* adding it; the upper correction stops at the bound instead of one step
\* inside it.
SpeedBounceBelowFloor(st, c) ==
    IF DblLess(MAX_CYCLE_TIME, c)
    THEN [st EXCEPT !.cycle = DblSub(MAX_CYCLE_TIME, Tenth),
                    !.cycle_change = MinusTenth,
                    !.bounced.speed = TRUE]
    ELSE IF DblLess(c, MIN_CYCLE_TIME)
    THEN [st EXCEPT !.cycle = DblSub(MIN_CYCLE_TIME, Tenth),
                    !.cycle_change = PlusTenth,
                    !.bounced.speed = TRUE]
    ELSE [st EXCEPT !.cycle = c]

SpeedBounceAtBound(st, c) ==
    IF DblLess(MAX_CYCLE_TIME, c)
    THEN [st EXCEPT !.cycle = MAX_CYCLE_TIME,
                    !.cycle_change = MinusTenth,
                    !.bounced.speed = TRUE]
    ELSE IF DblLess(c, MIN_CYCLE_TIME)
    THEN [st EXCEPT !.cycle = DblAdd(MIN_CYCLE_TIME, Tenth),
                    !.cycle_change = PlusTenth,
                    !.bounced.speed = TRUE]
    ELSE [st EXCEPT !.cycle = c]

\* The speed branch after cycle = cycle + cycle_change, c being that sum.
SpeedBounce(st, c) ==
    IF DblLess(MAX_CYCLE_TIME, c)
    THEN [st EXCEPT !.cycle = DblSub(MAX_CYCLE_TIME, Tenth),
                    !.cycle_change = MinusTenth,
                    !.bounced.speed = TRUE]
    ELSE IF DblLess(c, MIN_CYCLE_TIME)
    THEN [st EXCEPT !.cycle = DblAdd(MIN_CYCLE_TIME, Tenth),
                    !.cycle_change = PlusTenth,
                    !.bounced.speed = TRUE]
    ELSE [st EXCEPT !.cycle = c]

\* Mutant of SpeedPad: the branch also fills and shows, like the other two.
SpeedPadShows(st) ==
    FillShow(SpeedBounce(st, DblAddSigned(st.cycle, st.cycle_change)), "speed")

\* pad == 'speed'
SpeedPad(st) == SpeedBounce(st, DblAddSigned(st.cycle, st.cycle_change))

\* Mutant of BrightnessBounce: the lower correction is missing.
BrightnessBounceNoFloor(st, b) ==
    IF b > MAX_BRIGHTNESS
    THEN [st EXCEPT !.cycle_max_brightness = MAX_BRIGHTNESS - 1,
                    !.max_brightness_change = -1,
                    !.bounced.brightness = TRUE]
    ELSE [st EXCEPT !.cycle_max_brightness = b]

\* The brightness branch after cycle_max_brightness = cycle_max_brightness +
\* max_brightness_change, b being that sum, up to the fill.
BrightnessBounce(st, b) ==
    IF b > MAX_BRIGHTNESS
    THEN [st EXCEPT !.cycle_max_brightness = MAX_BRIGHTNESS - 1,
                    !.max_brightness_change = -1,
                    !.bounced.brightness = TRUE]
    ELSE IF b < BRIGHTNESS_FLOOR
    THEN [st EXCEPT !.cycle_max_brightness = BRIGHTNESS_RESET,
                    !.max_brightness_change = 1,
                    !.bounced.brightness = TRUE]
    ELSE [st EXCEPT !.cycle_max_brightness = b]

\* pad == 'brightness'
BrightnessPad(st) ==
    FillShow(BrightnessBounce(st, st.cycle_max_brightness + st.max_brightness_change),
             "brightness")

\* Mutant of TouchPad: the color branch runs whether or not the pad reads True.
TouchPadColorAlways(st, pad, touching) ==
    IF pad = "color" THEN ColorPad(st)
    ELSE IF pad \notin touching THEN st
    ELSE IF pad = "speed" THEN SpeedPad(st)
    ELSE BrightnessPad(st)

\* One pass of "for pad in sensor.keys()": if sensor[pad].value: ...
TouchPad(st, pad, touching) ==
    IF pad \notin touching THEN st
    ELSE IF pad = "color" THEN ColorPad(st)
    ELSE IF pad = "speed" THEN SpeedPad(st)
    ELSE BrightnessPad(st)

\* Mutant of ForPads: the loop is left after the first pad that reads True.
ForPadsFirstOnly(st, keys, touching) ==
    IF keys[1] \in touching THEN TouchPad(st, keys[1], touching)
    ELSE IF keys[2] \in touching THEN TouchPad(st, keys[2], touching)
    ELSE TouchPad(st, keys[3], touching)

ForPads(st, keys, touching) ==
    TouchPad(TouchPad(TouchPad(st, keys[1], touching), keys[2], touching),
             keys[3], touching)

\* cycle_brightness for each sine of the grid, computed once.
PulseTable == [sine \in Sines |-> pulse(sine)]

\* The part of the loop body that always runs.
Pulse(st, sine) ==
    FillShow([st EXCEPT !.cycle_brightness = PulseTable[sine]], "pulse")

\* One iteration of the main loop.
Iteration(st, keys, touching, sine) ==
    Pulse(ForPads([st EXCEPT !.shows = <<>>], keys, touching), sine)

(***************************************************************************)
(* State                                                                   *)
(***************************************************************************)
VARIABLES
    color, cycle, cycle_change,                  \* INITIAL SETTINGS
    cycle_brightness, cycle_max_brightness, max_brightness_change,
    sensor,      \* the order in which sensor.keys() yields the three pads
    pixels,      \* the colour the strip is filled with
    s,           \* the sine of the last iteration
    call,        \* the arguments of the last call of wheel()
    shows,       \* the frames flushed by pixels.show() in the last iteration
    touched,     \* the pads that read True in the last iteration
    bounced,     \* which branches have corrected a value at a bound
    presses,     \* per pad, the iterations so far in which it read True
    ticks,       \* the iterations counted so far
    pc           \* "loop": in the main loop; "call", "return": a call of wheel()

vars == <<color, cycle, cycle_change, cycle_brightness, cycle_max_brightness,
          max_brightness_change, sensor, pixels, s, call, shows, touched,
          bounced, presses, ticks, pc>>

\* presses saturates at MaxPresses, ticks at MaxTicks.
MaxPresses == 500

MaxTicks == 1

\* The program's variables as a record.
Cur ==
    [color |-> color, cycle |-> cycle, cycle_change |-> cycle_change,
     cycle_brightness |-> cycle_brightness,
     cycle_max_brightness |-> cycle_max_brightness,
     max_brightness_change |-> max_brightness_change,
     pixels |-> pixels, call |-> call, shows |-> shows, bounced |-> bounced]

\* The program's variables on entry to the main loop: the INITIAL SETTINGS and
\* the first fill and show.
Start ==
    [color |-> 1, cycle |-> DblOfInt(2), cycle_change |-> MinusTenth,
     cycle_brightness |-> 255,
     cycle_max_brightness |-> MAX_BRIGHTNESS,
     max_brightness_change |-> -1,
     pixels |-> wheel(1, 255, MAX_BRIGHTNESS),
     call |-> <<1, 255, MAX_BRIGHTNESS>>,
     shows |-> <<[by |-> "start", rgb |-> wheel(1, 255, MAX_BRIGHTNESS)]>>,
     bounced |-> [speed |-> FALSE, brightness |-> FALSE]]

\* The sine that gives the initial cycle_brightness, 255.
SineOne == Sine(2 * SineSteps)

Becomes(st) ==
    /\ color' = st.color
    /\ cycle' = st.cycle
    /\ cycle_change' = st.cycle_change
    /\ cycle_brightness' = st.cycle_brightness
    /\ cycle_max_brightness' = st.cycle_max_brightness
    /\ max_brightness_change' = st.max_brightness_change
    /\ pixels' = st.pixels
    /\ call' = st.call
    /\ shows' = st.shows
    /\ bounced' = st.bounced

Is(st) ==
    /\ color = st.color
    /\ cycle = st.cycle
    /\ cycle_change = st.cycle_change
    /\ cycle_brightness = st.cycle_brightness
    /\ cycle_max_brightness = st.cycle_max_brightness
    /\ max_brightness_change = st.max_brightness_change
    /\ pixels = st.pixels
    /\ call = st.call
    /\ shows = st.shows
    /\ bounced = st.bounced

\* The keys in insertion order, as a dict of Python 3.7 or later yields them.
InsertionOrder == <<"color", "speed", "brightness">>

Init ==
    /\ Is(Start)
    /\ sensor = InsertionOrder
    /\ s = SineOne
    /\ touched = {}
    /\ presses = [p \in Pads |-> 0]
    /\ ticks = 0
    /\ pc = "loop"

\* while True: one iteration, the pads in touching reading True and the sine
\* being sine; counted says whether ticks counts it.
MainLoop(touching, sine, counted) ==
    /\ pc = "loop"
    /\ \E st \in {Iteration(Cur, sensor, touching, sine)} : Becomes(st)
    /\ s' = sine
    /\ touched' = touching
    /\ presses' = [p \in Pads |->
                     IF p \in touching /\ presses[p] < MaxPresses
                     THEN presses[p] + 1 ELSE presses[p]]
    /\ ticks' = IF counted /\ ticks < MaxTicks THEN ticks + 1 ELSE ticks
    /\ UNCHANGED <<sensor, pc>>

(***************************************************************************)
(* Specifications.  The three counters are independent, so each is         *)
(* explored to the end under a specification in which only its own pad is  *)
(* ever touched.                                                           *)
(***************************************************************************)
NextColor == \E touching \in SUBSET {"color"}, sine \in Sines : MainLoop(touching, sine, TRUE)

SpecColor == Init /\ [][NextColor]_vars

NextSpeed == \E touching \in SUBSET {"speed"}, sine \in Sines : MainLoop(touching, sine, TRUE)

SpecSpeed == Init /\ [][NextSpeed]_vars

NextBrightness ==
    \E touching \in SUBSET {"brightness"}, sine \in Sines : MainLoop(touching, sine, TRUE)

SpecBrightness == Init /\ [][NextBrightness]_vars

(***************************************************************************)
(* The main loop with every pad in play, on any key order (a dict of an    *)
(* older Python, or of MicroPython, yields its keys in hash order).  The   *)
(* user first holds one pad after the other, alone: the color pad, then    *)
(* the speed pad, then the brightness pad, each for one of a few numbers   *)
(* of iterations that end just before a wrap or a correction (the color    *)
(* pad may also be left alone).  From there MaxTicks iterations follow     *)
(* with any pads touched; ticks counts those.                              *)
(***************************************************************************)
HoldColor == {0, 254}

HoldSpeed == {14, 109}

HoldBrightness == {245, 490}

InitAnyOrder ==
    /\ Is(Start)
    /\ sensor \in KeyOrders
    /\ s = SineOne
    /\ touched = {}
    /\ presses = [p \in Pads |-> 0]
    /\ ticks = 0
    /\ pc = "loop"

\* The pad the user may go on holding.
Holding(pad) ==
    /\ ticks = 0
    /\ \E n \in (IF pad = "color" THEN HoldColor
                 ELSE IF pad = "speed" THEN HoldSpeed ELSE HoldBrightness) :
           presses[pad] < n
    /\ pad = "color" => presses["speed"] = 0
    /\ pad \in {"color", "speed"} => presses["brightness"] = 0
    /\ pad \in {"speed", "brightness"} => presses["color"] \in HoldColor
    /\ pad = "brightness" => presses["speed"] \in HoldSpeed

HoldTick ==
    \E pad \in Pads :
        /\ Holding(pad)
        /\ MainLoop({pad}, SineOne, FALSE)

FreeTick ==
    /\ ticks < MaxTicks
    /\ ticks = 0 => /\ presses["color"] \in HoldColor
                    /\ presses["speed"] \in HoldSpeed
                    /\ presses["brightness"] \in HoldBrightness
    /\ \E touching \in SUBSET Pads, sine \in Sines : MainLoop(touching, sine, TRUE)

NextLoop == HoldTick \/ FreeTick

Spec == InitAnyOrder /\ [][NextLoop]_vars

(***************************************************************************)
(* wheel() as a function: one call on arguments drawn from bounded sets.   *)
(***************************************************************************)
PosArgs == -1..256

BrightnessArgs == {0, 1, 2, 63, 64, 127, 128, 191, 254, 255, 256, 300, 510}

MaxBrightnessArgs == {0, 1, 10, 11, 85, 128, 147, 155, 171, 187, 195, 254, 255, 256, 300}

InitWheel ==
    /\ call \in PosArgs \X BrightnessArgs \X MaxBrightnessArgs
    /\ pc = "call"
    /\ pixels = <<0, 0, 0>>
    /\ shows = <<>>
    /\ color = Start.color
    /\ cycle = Start.cycle
    /\ cycle_change = Start.cycle_change
    /\ cycle_brightness = Start.cycle_brightness
    /\ cycle_max_brightness = Start.cycle_max_brightness
    /\ max_brightness_change = Start.max_brightness_change
    /\ bounced = Start.bounced
    /\ sensor = InsertionOrder
    /\ s = SineOne
    /\ touched = {}
    /\ presses = [p \in Pads |-> 0]
    /\ ticks = 0

\* pixels.fill(wheel(pos, brightness, max_brightness)); pixels.show()
WheelCall ==
    /\ pc = "call"
    /\ pixels' = wheel(call[1], call[2], call[3])
    /\ shows' = <<[by |-> "call", rgb |-> pixels']>>
    /\ pc' = "return"
    /\ UNCHANGED <<color, cycle, cycle_change, cycle_brightness, cycle_max_brightness,
                   max_brightness_change, sensor, s, call, touched, bounced,
                   presses, ticks>>

SpecWheel == InitWheel /\ [][WheelCall]_vars

C2_HueRange == color \in 1..255

\* The color pad has just taken the hue from 255 back to 1.
C2_Witness ==
    /\ "color" \in touched
    /\ presses["color"] > 1
    /\ color = 1

\* C3: cycle is in [0.5,10.0] at the end of every iteration, which is its
\* value where the sine is computed, so the divisor is positive.
C3_CycleRange ==
    /\ ~DblLess(cycle, DblDivInt(1, 2))
    /\ ~DblLess(DblOfInt(10), cycle)

\* The speed pad has just corrected the cycle at the upper bound, after an
\* earlier correction at the lower one.
C3_Witness ==
    /\ "speed" \in touched
    /\ bounced.speed
    /\ cycle_change = MinusTenth
    /\ cycle = DblDivInt(99, 10)

\* C4: the hue is a wrapping counter: after n touches of the color pad it is
\* 1 + (n mod 255), so each touch adds 1, the 255th touch wraps it to 1, and
\* it is not clamped at 255.
C4_HueWraps ==
    presses["color"] < MaxPresses => color = 1 + (presses["color"] % 255)

C4_Witness ==
    /\ "color" \in touched
    /\ presses["color"] = 255
    /\ color = 1

\* The cycle, in tenths of a second, that C5 describes after n touches of the
\* speed pad: 20 down to 5 at the 15th touch, then 6 up to 100 at the 110th,
\* then 99 down to 5 at the 205th, and so on with period 190.
C5_Tenths(n) ==
    IF n <= 15 THEN 20 - n
    ELSE IF (n - 16) % 190 <= 94 THEN 6 + ((n - 16) % 190)
    ELSE 99 - (((n - 16) % 190) - 95)

\* The step C5 describes after n touches.
C5_Step(n) ==
    IF n <= 15 THEN MinusTenth
    ELSE IF (n - 16) % 190 <= 94 THEN PlusTenth
    ELSE MinusTenth

\* a is within 0.05 of t tenths.
NearTenths(a, t) ==
    /\ DblLess(DblDivInt((2 * t) - 1, 20), a)
    /\ DblLess(a, DblDivInt((2 * t) + 1, 20))

\* C5 (as stated): with the speed pad touched again and again from cycle 2.0
\* and step -0.1, the cycle goes down in steps of 0.1 to the floor 0.5, the
\* step flips, the cycle goes up in steps of 0.1 to the ceiling 10.0, the step
\* flips, and floor and ceiling are reached again and again.  Each value is
\* compared up to 0.05, so that only a missed step counts.
C5_FloorAndCeilingReached ==
    presses["speed"] < MaxPresses =>
        /\ NearTenths(cycle, C5_Tenths(presses["speed"]))
        /\ cycle_change = C5_Step(presses["speed"])

\* The speed branch as C6 states it, c being cycle + cycle_change.
C6_Cycle(c) ==
    IF DblLess(DblOfInt(10), c)
    THEN cycle' = DblDivInt(99, 10) /\ cycle_change' = MinusTenth
    ELSE IF DblLess(c, DblDivInt(1, 2))
    THEN cycle' = DblDivInt(6, 10) /\ cycle_change' = PlusTenth
    ELSE cycle' = c /\ cycle_change' = cycle_change

\* The brightness branch as C6 states it, b being cycle_max_brightness +
\* max_brightness_change.
C6_MaxBrightness(b) ==
    IF b > 255
    THEN cycle_max_brightness' = 254 /\ max_brightness_change' = -1
    ELSE IF b < 10
    THEN cycle_max_brightness' = 11 /\ max_brightness_change' = 1
    ELSE cycle_max_brightness' = b /\ max_brightness_change' = max_brightness_change

Place(keys, pad) == CHOOSE i \in 1..3 : keys[i] = pad

\* The frame C8 expects from the touched pad by: the wheel colour of the
\* values right after that pad's update, the other pad's update being in it
\* when that pad reads True and comes earlier in the key order.
C8_Frame(by) ==
    IF by = "color"
    THEN wheel(color', cycle_brightness,
               IF "brightness" \in touched' /\ Place(sensor, "brightness") < Place(sensor, "color")
               THEN cycle_max_brightness' ELSE cycle_max_brightness)
    ELSE wheel(IF "color" \in touched' /\ Place(sensor, "color") < Place(sensor, "brightness")
               THEN color' ELSE color,
               cycle_brightness, cycle_max_brightness')

\* C8: in one iteration each touched color or brightness pad flushes exactly
\* one frame, that of the values right after its update, in the order the pads
\* are visited; the speed pad flushes none; one frame of the freshly computed
\* envelope is flushed last; so an iteration flushes 1 to 3 frames.
C8_RenderOrder ==
    [][pc = "loop" =>
          /\ Len(shows') = 1 + Cardinality(touched' \cap {"color", "brightness"})
          /\ Len(shows') \in 1..3
          /\ \A i \in 1..(Len(shows') - 1) :
                 /\ shows'[i].by \in touched' \cap {"color", "brightness"}
                 /\ shows'[i].rgb = C8_Frame(shows'[i].by)
                 /\ \A j \in 1..(i - 1) :
                        Place(sensor, shows'[j].by) < Place(sensor, shows'[i].by)
          /\ cycle_brightness' = pulse(s')
          /\ shows'[Len(shows')] =
                 [by |-> "pulse",
                  rgb |-> wheel(color', pulse(s'), cycle_max_brightness')]
          /\ pixels' = shows'[Len(shows')].rgb]_vars

\* An iteration with all three pads touched has flushed three frames.
C8_Witness ==
    /\ ticks > 0
    /\ touched = Pads
    /\ Len(shows) = 3
    /\ shows[3].by = "pulse"

\* C9: an iteration changes color only if the color pad is touched, cycle and
\* cycle_change only if the speed pad is, cycle_max_brightness and
\* max_brightness_change only if the brightness pad is; with no pad touched
\* all five are unchanged; a touched pad applies exactly one step.
C9_Ownership ==
    [][pc = "loop" =>
          /\ color' = IF "color" \notin touched' THEN color
                      ELSE IF color = 255 THEN 1 ELSE color + 1
          /\ "speed" \notin touched' => UNCHANGED <<cycle, cycle_change>>
          /\ "speed" \in touched' =>
                 /\ cycle' # cycle
                 /\ cycle' \in {DblAddSigned(cycle, cycle_change),
                                DblDivInt(99, 10), DblDivInt(6, 10)}
          /\ "brightness" \notin touched' =>
                 UNCHANGED <<cycle_max_brightness, max_brightness_change>>
          /\ "brightness" \in touched' =>
                 /\ cycle_max_brightness' # cycle_max_brightness
                 /\ cycle_max_brightness' \in
                        {cycle_max_brightness + max_brightness_change, 254, 11}
          /\ touched' = {} =>
                 UNCHANGED <<color, cycle, cycle_change, cycle_max_brightness,
                             max_brightness_change>>]_vars

\* An iteration with only the speed pad touched, the hue being at its wrap
\* and the maximum brightness at its lower bound.
C9_Witness ==
    /\ ticks > 0
    /\ touched = {"speed"}
    /\ color = 255
    /\ cycle_max_brightness = 10

\* st has the values and the last frame the iteration ended with.
C10_SameResult(st) ==
    /\ st.color = color'
    /\ st.cycle = cycle'
    /\ st.cycle_change = cycle_change'
    /\ st.cycle_max_brightness = cycle_max_brightness'
    /\ st.max_brightness_change = max_brightness_change'
    /\ st.cycle_brightness = cycle_brightness'
    /\ st.pixels = pixels'
    /\ st.shows[Len(st.shows)] = shows'[Len(shows')]

\* C10: from every state and for every set of touched pads, the iteration
\* run on each of the 6 key orders ends with the same color, cycle,
\* cycle_change, cycle_max_brightness, max_brightness_change and last frame.
C10_OrderIndependent ==
    [][pc = "loop" =>
          \A o \in KeyOrders :
              \A st \in {Iteration(Cur, o, touched', s')} : C10_SameResult(st)]_vars

\* An iteration with all three pads touched, visited brightness first and
\* color last.
C10_Witness ==
    /\ ticks > 0
    /\ touched = Pads
    /\ sensor[1] = "brightness"
    /\ sensor[3] = "color"

=============================================================================
